---- MODULE Spec2Model ----
(***************************************************************************)
(* Model of the hotspot agent: the Mikrotik session manager (mikrotik.py), *)
(* the command interpreter execute_command and the poll-execute-report    *)
(* loop poll_command (app.py), running against a device that is modelled  *)
(* as three tables (hotspot users, active sessions, hosts).               *)
(*                                                                         *)
(* A device interaction (connect, get, call) either succeeds with its     *)
(* effect on the tables, or raises and has no effect.  Which interaction  *)
(* of an operation raises, and with which message, is an input of the     *)
(* operation (the "failure pattern" f).                                    *)
(***************************************************************************)
EXTENDS Integers, Sequences, FiniteSets, TLC

\* ------------------------------------------------------------------------
\* Bounds of the model
\* ------------------------------------------------------------------------
MaxBatch == 2      \* commands in one fetched batch
MaxCmdId == 2      \* command ids are 1..MaxCmdId
MaxUid == 1        \* ids the device hands out to accounts created by add
MaxSid == 1        \* ids the device hands out to sessions created by login
MaxInitSess == 2   \* sessions per MAC on the device at start
MaxLen == 3        \* characters of a duration string given to the codec

\* Python's None; every modelled parameter value is a string.
None == "None"

\* Mutant: the all([...]) check of the parameters is missing.
TruthyAlways(v) == TRUE

\* bool(v) of a parameter value: None and the empty string are falsy.
Truthy(v) == v /= None /\ v /= ""

\* ------------------------------------------------------------------------
\* Strings of the model
\* ------------------------------------------------------------------------
Macs == {"AA", "BB"}
Ips == {"ip1", "ip2"}

\* str.lower() on the MAC strings of the model.
Lower(s) ==
  CASE s = "AA" -> "aa"
    [] s = "BB" -> "bb"
    [] OTHER -> s

\* The duration strings of the model and their characters.
TimeStrs == {"0s", "1m", "5m", "1h", "2h30m", "1w", "", "x5"}

Chars(s) ==
  CASE s = "0s" -> <<"0", "s">>
    [] s = "1m" -> <<"1", "m">>
    [] s = "5m" -> <<"5", "m">>
    [] s = "1h" -> <<"1", "h">>
    [] s = "2h30m" -> <<"2", "h", "3", "0", "m">>
    [] s = "1w" -> <<"1", "w">>
    [] s = "x5" -> <<"x", "5">>
    [] OTHER -> <<>>

Digits == {"0", "1", "2", "3", "4", "5", "6", "7", "8", "9"}

DigitVal(c) ==
  CASE c = "0" -> 0 [] c = "1" -> 1 [] c = "2" -> 2 [] c = "3" -> 3
    [] c = "4" -> 4 [] c = "5" -> 5 [] c = "6" -> 6 [] c = "7" -> 7
    [] c = "8" -> 8 [] c = "9" -> 9

\* time_units of _parse_mikrotik_time
UnitChars == {"w", "d", "h", "m", "s"}

time_units_day_week(u) ==
  CASE u = "w" -> 86400
    [] u = "d" -> 86400
    [] u = "h" -> 3600
    [] u = "m" -> 60
    [] u = "s" -> 1

time_units(u) ==
  CASE u = "w" -> 604800
    [] u = "d" -> 86400
    [] u = "h" -> 3600
    [] u = "m" -> 60
    [] u = "s" -> 1

\* re.findall(r'(\d+)([wdhms])', cs) summed: scan from position i with the
\* value num of the digit run that ends just before i (have: there is one).
RECURSIVE SumMatches(_, _, _, _)
SumMatches(cs, i, num, have) ==
  IF i > Len(cs) THEN 0
  ELSE IF cs[i] \in Digits
    THEN SumMatches(cs, i + 1, (IF have THEN num * 10 ELSE 0) + DigitVal(cs[i]), TRUE)
  ELSE IF have /\ cs[i] \in UnitChars
    THEN num * time_units(cs[i]) + SumMatches(cs, i + 1, 0, FALSE)
  ELSE SumMatches(cs, i + 1, 0, FALSE)

\* Lines 119-126 on the characters of the string.
ParseChars(cs) ==
  IF cs = <<"0", "s">> THEN 0 ELSE SumMatches(cs, 1, 0, FALSE)

_parse_mikrotik_time(time_str) == ParseChars(Chars(time_str))

\* ------------------------------------------------------------------------
\* Device errors
\* ------------------------------------------------------------------------
\* Texts a failing device interaction can carry (str(e)).
DevMsgs == {"Your uptime limit reached", "uptime limit exceeded", "no such user",
            "Connection refused", "unknown host", "timed out"}

\* str(e).lower() on the texts of the model.
MsgLower(m) ==
  CASE m = "Your uptime limit reached" -> "your uptime limit reached"
    [] m = "Connection refused" -> "connection refused"
    [] OTHER -> m

\* pat in text, for the lowercased texts of the model.
Contains(text, pat) ==
  pat \in (CASE text = "your uptime limit reached" ->
                  {"your uptime limit reached", "uptime limit"}
             [] text = "uptime limit exceeded" -> {"uptime limit"}
             [] text = "no such user" -> {"no such user"}
             [] text = "connection refused" -> {"connection refused"}
             [] text = "unknown host" -> {"unknown host"}
             [] OTHER -> {})

\* A failure pattern: rm names the interaction of the session cleanup that
\* raises (0 none, 1 the connection, 2 the listing, 2+k the k-th remove call),
\* at the interaction of the operation proper that raises (0 none), msg the
\* text it raises with, ctor whether constructing Mikrotik() raises.
Failures ==
  {f \in [rm : 0 .. (2 + MaxInitSess), at : 0 .. 5, msg : DevMsgs, ctor : BOOLEAN] :
     /\ f.at = 0 => f.msg = "timed out"
     /\ f.ctor => f.rm = 0 /\ f.at = 0}

NoFailure == [rm |-> 0, at |-> 0, msg |-> "timed out", ctor |-> FALSE]

\* ------------------------------------------------------------------------
\* Device tables and calls
\* ------------------------------------------------------------------------
\* One call(...) on a device resource, as the session manager issues it.
DevCall(res, op, id, name, arg) ==
  [res |-> res, op |-> op, id |-> id, name |-> name, arg |-> arg]

\* Outcome of an operation: returned (kind "ok") or the exception it raised.
Ok == [kind |-> "ok", msg |-> ""]
Raised(kind, msg) == [kind |-> kind, msg |-> msg]

\* /ip/hotspot/user get(name=username): the device's equality filter.
UsersNamed(d, username) == SelectSeq(d.users, LAMBDA u : u.name = username)

\* The records of seq whose id is not in ids.
WithoutIds(seq, ids) == SelectSeq(seq, LAMBDA r : r.id \notin ids)

\* ------------------------------------------------------------------------
\* Session manager (class Mikrotik)
\* ------------------------------------------------------------------------
\* Mutant: only the first matching session is removed.
remove_active_session_by_mac_first(d, mac, f) ==
  IF f.rm \in {1, 2} THEN [dev |-> d, out |-> Ok, ret |-> FALSE, calls |-> <<>>]
  ELSE
    LET matching_sessions ==
          SelectSeq(d.active, LAMBDA s : Lower(s.mac) = Lower(mac))
    IN IF matching_sessions = <<>> \/ f.rm >= 3
         THEN [dev |-> d, out |-> Ok, ret |-> (matching_sessions = <<>>), calls |-> <<>>]
       ELSE [dev |-> [d EXCEPT !.active = WithoutIds(d.active, {matching_sessions[1].id})],
             out |-> Ok, ret |-> TRUE,
             calls |-> <<DevCall("active", "remove", matching_sessions[1].id, "", "")>>]

\* remove_active_session_by_mac: the whole body is one try; any exception
\* ends it with False.
remove_active_session_by_mac(d, mac, f) ==
  IF f.rm \in {1, 2} THEN [dev |-> d, out |-> Ok, ret |-> FALSE, calls |-> <<>>]
  ELSE
    LET matching_sessions ==
          SelectSeq(d.active, LAMBDA s : Lower(s.mac) = Lower(mac))
        n == Len(matching_sessions)
        k == IF f.rm >= 3 /\ f.rm - 2 <= n THEN f.rm - 2 ELSE 0
        attempted == IF k = 0 THEN n ELSE k
        removed == {matching_sessions[i].id : i \in 1 .. (IF k = 0 THEN n ELSE k - 1)}
    IN [dev |-> [d EXCEPT !.active = WithoutIds(d.active, removed)],
        out |-> Ok,
        ret |-> (k = 0),
        calls |-> [i \in 1 .. attempted |->
                     DevCall("active", "remove", matching_sessions[i].id, "", "")]]

\* The device's answer to the removal of a session it no longer has.
NoSuchItem == "no such item"

\* Mutant: the try has no except clauses, so a failing removal raises.
RemoveListedRaising(d, listed, f, gone) ==
  LET n == Len(listed)
      fails == {i \in 1 .. n : listed[i].id \in gone \/ i = f.rm - 2}
      k == IF fails = {} THEN 0 ELSE CHOOSE i \in fails : \A j \in fails : i <= j
      removed == {listed[i].id : i \in 1 .. (IF k = 0 THEN n ELSE k - 1)}
  IN [dev |-> [d EXCEPT !.active = WithoutIds(d.active, removed \cup gone)],
      out |-> IF k = 0 THEN Ok ELSE Raised("reraised", "timed out"),
      ret |-> (k = 0),
      calls |-> [i \in 1 .. (IF k = 0 THEN n ELSE k) |->
                   DevCall("active", "remove", listed[i].id, "", "")]]

\* Lines 54-72 and 80-99: the for loop over the listed sessions, and what the
\* except clauses make of a failing remove call.  gone holds the listed
\* sessions that the device has dropped since the listing: the device rejects
\* their removal.  The first failing remove call ends the loop; out.msg is
\* the error the method has logged.
RemoveListed(d, listed, f, gone) ==
  LET n == Len(listed)
      fails == {i \in 1 .. n : listed[i].id \in gone \/ i = f.rm - 2}
      k == IF fails = {} THEN 0 ELSE CHOOSE i \in fails : \A j \in fails : i <= j
      removed == {listed[i].id : i \in 1 .. (IF k = 0 THEN n ELSE k - 1)}
  IN [dev |-> [d EXCEPT !.active = WithoutIds(d.active, removed \cup gone)],
      out |-> [kind |-> "ok",
               msg |-> IF k = 0 THEN ""
                       ELSE IF listed[k].id \in gone THEN NoSuchItem ELSE "timed out"],
      ret |-> (k = 0),
      calls |-> [i \in 1 .. (IF k = 0 THEN n ELSE k) |->
                   DevCall("active", "remove", listed[i].id, "", "")]]

\* Lines 46-53 and 76-79: the connection and the listing; a failure of
\* either is logged and the method returns False.
NotListed(d) ==
  [dev |-> d, out |-> [kind |-> "ok", msg |-> "timed out"], ret |-> FALSE, calls |-> <<>>]

\* remove_active_session_by_mac with the device dropping the sessions gone
\* of the MAC between the listing and their removal.
remove_active_session_by_mac_gone(d, mac, f, gone) ==
  IF f.rm \in {1, 2} THEN NotListed(d)
  ELSE RemoveListed(d, SelectSeq(d.active, LAMBDA s : Lower(s.mac) = Lower(mac)), f, gone)

\* remove_active_session_by_ip: the same, over get(address=ip).
remove_active_session_by_ip(d, ip, f, gone) ==
  IF f.rm \in {1, 2} THEN NotListed(d)
  ELSE RemoveListed(d, SelectSeq(d.active, LAMBDA s : s.address = ip), f, gone)

\* Mutant: the existing account is looked up but not removed.
remove_existing_user_kept(d, username, f) ==
  IF f.at \in {1, 2}
    THEN [dev |-> d, out |-> Raised("reraised", f.msg), ret |-> FALSE, calls |-> <<>>]
  ELSE [dev |-> d, out |-> Ok, ret |-> FALSE, calls |-> <<>>]

\* remove_existing_user: removes the first account of that name; re-raises.
remove_existing_user(d, username, f) ==
  IF f.at \in {1, 2}
    THEN [dev |-> d, out |-> Raised("reraised", f.msg), ret |-> FALSE, calls |-> <<>>]
  ELSE
    LET existing_users == UsersNamed(d, username) IN
    IF existing_users = <<>>
      THEN [dev |-> d, out |-> Ok, ret |-> FALSE, calls |-> <<>>]
    ELSE
      LET c == DevCall("user", "remove", existing_users[1].id, "", "") IN
      IF f.at = 3
        THEN [dev |-> d, out |-> Raised("reraised", f.msg), ret |-> FALSE,
              calls |-> <<c>>]
      ELSE [dev |-> [d EXCEPT !.users = WithoutIds(d.users, {existing_users[1].id})],
            out |-> Ok, ret |-> TRUE, calls |-> <<c>>]

\* Mutant: an account whose uptime equals its limit is not yet expired.
user_exists_strict(d, username, f) ==
  IF f.at \in {1, 2}
    THEN [dev |-> d, out |-> Raised("reraised", f.msg), ret |-> FALSE, calls |-> <<>>]
  ELSE
    LET existing_users == UsersNamed(d, username) IN
    IF existing_users = <<>>
      THEN [dev |-> d, out |-> Ok, ret |-> FALSE, calls |-> <<>>]
    ELSE
      LET user_details == existing_users[1]
          uptime == _parse_mikrotik_time(user_details.uptime)
          limit_uptime == _parse_mikrotik_time(user_details.limit)
          c == DevCall("user", "remove", user_details.id, "", "")
      IN IF limit_uptime /= 0 /\ uptime > limit_uptime
           THEN IF f.at = 3
                  THEN [dev |-> d, out |-> Raised("reraised", f.msg), ret |-> FALSE,
                        calls |-> <<c>>]
                ELSE [dev |-> [d EXCEPT !.users = WithoutIds(d.users, {user_details.id})],
                      out |-> Ok, ret |-> FALSE, calls |-> <<c>>]
         ELSE [dev |-> d, out |-> Ok, ret |-> TRUE, calls |-> <<>>]

\* user_exists: reaps the account when its uptime has reached its limit.
user_exists(d, username, f) ==
  IF f.at \in {1, 2}
    THEN [dev |-> d, out |-> Raised("reraised", f.msg), ret |-> FALSE, calls |-> <<>>]
  ELSE
    LET existing_users == UsersNamed(d, username) IN
    IF existing_users = <<>>
      THEN [dev |-> d, out |-> Ok, ret |-> FALSE, calls |-> <<>>]
    ELSE
      LET user_details == existing_users[1]
          uptime == _parse_mikrotik_time(user_details.uptime)
          limit_uptime == _parse_mikrotik_time(user_details.limit)
          c == DevCall("user", "remove", user_details.id, "", "")
      IN IF limit_uptime /= 0 /\ uptime >= limit_uptime
           THEN IF f.at = 3
                  THEN [dev |-> d, out |-> Raised("reraised", f.msg), ret |-> FALSE,
                        calls |-> <<c>>]
                ELSE [dev |-> [d EXCEPT !.users = WithoutIds(d.users, {user_details.id})],
                      out |-> Ok, ret |-> FALSE, calls |-> <<c>>]
         ELSE [dev |-> d, out |-> Ok, ret |-> TRUE, calls |-> <<>>]

\* The account the device stores for an add call (a missing limit-uptime is
\* the device's "no limit").
NewAccount(d, username, password, time) ==
  [id |-> d.nextUid, name |-> username, password |-> password,
   uptime |-> "0s", limit |-> IF time = None THEN "0s" ELSE time]

\* Mutant: an existing account satisfies the request and nothing is done.
add_user_idempotent(d, username, password, time, f) ==
  IF f.at \in {1, 2}
    THEN [dev |-> d, out |-> Raised("reraised", f.msg), calls |-> <<>>]
  ELSE IF UsersNamed(d, username) /= <<>>
    THEN [dev |-> d, out |-> Ok, calls |-> <<>>]
  ELSE
    LET c == DevCall("user", "add", 0, username, time) IN
    IF f.at >= 3
      THEN [dev |-> d, out |-> Raised("reraised", f.msg), calls |-> <<c>>]
    ELSE [dev |-> [d EXCEPT
                     !.users = Append(@, NewAccount(d, username, password, time)),
                     !.nextUid = @ + 1],
          out |-> Ok, calls |-> <<c>>]

\* Mutant: a failure of remove_existing_user is swallowed and the add call
\* is made all the same.
add_user_despite(d, username, password, time, f) ==
  LET r == remove_existing_user(d, username, f)
      c == DevCall("user", "add", 0, username, time)
  IN IF f.at \in {4, 5}
       THEN [dev |-> r.dev, out |-> Raised("reraised", f.msg),
             calls |-> IF f.at = 5 THEN Append(r.calls, c) ELSE r.calls]
     ELSE [dev |-> [r.dev EXCEPT
                      !.users = Append(@, NewAccount(d, username, password, time)),
                      !.nextUid = @ + 1],
           out |-> Ok, calls |-> Append(r.calls, c)]

\* add_user: remove_existing_user, then the add call; re-raises.
add_user(d, username, password, time, f) ==
  LET r == remove_existing_user(d, username, f) IN
  IF r.out.kind /= "ok" THEN [dev |-> r.dev, out |-> r.out, calls |-> r.calls]
  ELSE IF f.at = 4
    THEN [dev |-> r.dev, out |-> Raised("reraised", f.msg), calls |-> r.calls]
  ELSE
    LET c == DevCall("user", "add", 0, username, time) IN
    IF f.at = 5
      THEN [dev |-> r.dev, out |-> Raised("reraised", f.msg),
            calls |-> Append(r.calls, c)]
    ELSE [dev |-> [r.dev EXCEPT
                     !.users = Append(@, NewAccount(d, username, password, time)),
                     !.nextUid = @ + 1],
          out |-> Ok, calls |-> Append(r.calls, c)]

\* login_ip = str(host.get('to-address', host.get('address', '')))
HostIp(host) ==
  IF host.toaddr /= None THEN host.toaddr
  ELSE IF host.address /= None THEN host.address
  ELSE ""

\* The except clause of login_user: the exception the caller sees for an
\* exception with text msg raised in the try body; bound tells whether
\* login_ip had been assigned when it was raised (every branch but
\* "connection refused" formats login_ip into its log line first).
LoginExcept(msg, bound) ==
  LET error_message == MsgLower(msg) IN
  IF Contains(error_message, "your uptime limit reached")
    THEN IF bound THEN Raised("ReAddUserError", "Readd user")
         ELSE Raised("UnboundLocalError", "login_ip")
  ELSE IF Contains(error_message, "no such user")
    THEN IF bound THEN Raised("Exception", "User not found")
         ELSE Raised("UnboundLocalError", "login_ip")
  ELSE IF Contains(error_message, "connection refused")
    THEN Raised("reraised", msg)
  ELSE IF Contains(error_message, "unknown host")
    THEN IF bound THEN Raised("Exception", "Unknown host IP")
         ELSE Raised("UnboundLocalError", "login_ip")
  ELSE IF bound THEN Raised("reraised", msg)
       ELSE Raised("UnboundLocalError", "login_ip")

\* Line 242: the listing of /ip/hotspot/host, once it has returned.
HostsListed == DevCall("host", "get", 0, "", "")

\* Mutant: the ip the caller supplied is bound when there is one.
login_user_supplied_ip(d, mac, ip, f) ==
  LET r == remove_active_session_by_mac(d, mac, f)
      d1 == r.dev
      matching_hosts == SelectSeq(d1.hosts, LAMBDA h : Lower(h.mac) = Lower(mac))
      listed == Append(r.calls, HostsListed)
  IN
  IF f.at \in {1, 2}
    THEN [dev |-> d1, out |-> LoginExcept(f.msg, FALSE), rmok |-> r.ret,
          calls |-> r.calls]
  ELSE IF matching_hosts = <<>>
    THEN [dev |-> d1, out |-> LoginExcept("Host entry not found for MAC", FALSE),
          rmok |-> r.ret, calls |-> listed]
  ELSE
    LET login_ip == IF Truthy(ip) THEN ip ELSE HostIp(matching_hosts[1])
        c == DevCall("active", "login", 0, mac, login_ip)
    IN
    IF login_ip = ""
      THEN [dev |-> d1, out |-> LoginExcept("No valid IP found for MAC", TRUE),
            rmok |-> r.ret, calls |-> listed]
    ELSE IF f.at >= 3
      THEN [dev |-> d1, out |-> LoginExcept(f.msg, TRUE), rmok |-> r.ret,
            calls |-> Append(listed, c)]
    ELSE [dev |-> [d1 EXCEPT
                     !.active = Append(@, [id |-> d1.nextSid, mac |-> mac,
                                           address |-> login_ip]),
                     !.nextSid = @ + 1],
          out |-> Ok, rmok |-> r.ret, calls |-> Append(listed, c)]

\* login_user: best-effort cleanup of the MAC's sessions, host lookup, the
\* login call.  The ip argument is not used by the body.  calls holds the
\* remove and login calls attempted and the host listing obtained.
login_user(d, mac, ip, f) ==
  LET r == remove_active_session_by_mac(d, mac, f)
      d1 == r.dev
      matching_hosts == SelectSeq(d1.hosts, LAMBDA h : Lower(h.mac) = Lower(mac))
      listed == Append(r.calls, HostsListed)
  IN
  IF f.at \in {1, 2}
    THEN [dev |-> d1, out |-> LoginExcept(f.msg, FALSE), rmok |-> r.ret,
          calls |-> r.calls]
  ELSE IF matching_hosts = <<>>
    THEN [dev |-> d1, out |-> LoginExcept("Host entry not found for MAC", FALSE),
          rmok |-> r.ret, calls |-> listed]
  ELSE
    LET login_ip == HostIp(matching_hosts[1])
        c == DevCall("active", "login", 0, mac, login_ip)
    IN
    IF login_ip = ""
      THEN [dev |-> d1, out |-> LoginExcept("No valid IP found for MAC", TRUE),
            rmok |-> r.ret, calls |-> listed]
    ELSE IF f.at >= 3
      THEN [dev |-> d1, out |-> LoginExcept(f.msg, TRUE), rmok |-> r.ret,
            calls |-> Append(listed, c)]
    ELSE [dev |-> [d1 EXCEPT
                     !.active = Append(@, [id |-> d1.nextSid, mac |-> mac,
                                           address |-> login_ip]),
                     !.nextSid = @ + 1],
          out |-> Ok, rmok |-> r.ret, calls |-> Append(listed, c)]

\* ------------------------------------------------------------------------
\* Commands
\* ------------------------------------------------------------------------
Params(username, password, time, time_limit, mac, ip) ==
  [username |-> username, password |-> password, time |-> time,
   time_limit |-> time_limit, mac |-> mac, ip |-> ip]

\* A command's data: isMap tells whether data is a mapping at all, paramsMap
\* whether its params are one.
Data(type, params) ==
  [isMap |-> TRUE, type |-> type, paramsMap |-> TRUE, params |-> params]

NoParams == Params(None, None, None, None, None, None)

AddData(username, password, time) ==
  Data("add_user", Params(username, password, time, None, None, None))

LoginData(mac, ip, time) ==
  Data("login_user", Params(None, None, time, None, mac, ip))

\* The command data the control server sends in the model.
CommandDatas ==
  {AddData(u, u, "5m") : u \in Macs}
  \cup {LoginData("AA", "ip1", t) : t \in {None, "5m"}}
  \cup {AddData("AA", None, "5m"),
        Data("add_user", Params("AA", "AA", None, "5m", None, None)),
        AddData(None, "AA", "5m"),
        LoginData("AA", None, "5m"),
        LoginData(None, "ip1", "5m"),
        LoginData("AA", "ip2", "5m"),
        Data("del_user", NoParams),
        Data(None, NoParams),
        [Data("add_user", NoParams) EXCEPT !.paramsMap = FALSE],
        [Data(None, NoParams) EXCEPT !.isMap = FALSE]}

\* A record of the fetched list: hasId tells whether it carries an 'id'.
LoopDatas ==
  {LoginData("AA", "ip1", "5m"), Data("del_user", NoParams)}

Commands ==
  [hasId : {TRUE}, id : 1 .. MaxCmdId, data : LoopDatas]
  \cup [hasId : {FALSE}, id : {0}, data : LoopDatas]

\* One command at a time, of every kind.
SingleCommands == [hasId : {TRUE}, id : {1}, data : CommandDatas]

RECURSIVE SeqsUpTo(_, _)
SeqsUpTo(S, n) ==
  IF n = 0 THEN {<<>>}
  ELSE LET shorter == SeqsUpTo(S, n - 1)
       IN shorter \cup {Append(q, x) : q \in {t \in shorter : Len(t) = n - 1}, x \in S}

\* CommandResult
Success(message) == [status |-> "success", message |-> message]
Error(message) == [status |-> "error", message |-> message]
NoResult == [status |-> "none", message |-> ""]
NoCommand == [hasId |-> FALSE, id |-> 0, data |-> Data(None, NoParams)]

\* key=lambda x: x.get('id', 0)
SortKey(x) == IF x.hasId THEN x.id ELSE 0

\* sorted(commands, key=...): a stable sort, as insertion from the left.
RECURSIVE InsertSorted(_, _)
InsertSorted(sortedSeq, x) ==
  IF sortedSeq = <<>> THEN <<x>>
  ELSE LET last == sortedSeq[Len(sortedSeq)] IN
       IF SortKey(last) <= SortKey(x) THEN Append(sortedSeq, x)
       ELSE Append(InsertSorted(SubSeq(sortedSeq, 1, Len(sortedSeq) - 1), x), last)

\* Mutant: the batch is processed in the order received.
sorted_not(commands) == commands

RECURSIVE sorted(_)

sorted(commands) ==
  IF commands = <<>> THEN <<>>
  ELSE InsertSorted(sorted(SubSeq(commands, 1, Len(commands) - 1)),
                    commands[Len(commands)])

\* ------------------------------------------------------------------------
\* Command interpreter (execute_command)
\* ------------------------------------------------------------------------
\* One session-manager call made by execute_command, with what came of it.
Tables(d) == [users |-> d.users, active |-> d.active]

\* A session-manager call: name is its username or mac, pw its password, arg
\* its time or ip; d is the device before the call, r what the call returned.
SmCall(op, name, pw, arg, d, r, ret) ==
  [op |-> op, name |-> name, pw |-> pw, arg |-> arg, kind |-> r.out.kind, msg |-> r.out.msg,
   ret |-> ret, calls |-> r.calls, pre |-> Tables(d), post |-> Tables(r.dev)]

\* What execute_command has done when it returns or moves on to its next
\* session-manager call: the device, the result to return (NoResult while
\* the compensation is pending), and the session-manager call made (ret of a
\* login_user call: whether its session cleanup returned True).
Step(d, to, result, smcalls) ==
  [dev |-> d, pc |-> to, result |-> result, sm |-> smcalls]

AttributeErrorText == "'NoneType' object has no attribute 'get'"

\* Line 79: f"Unknown command type: {command_type}" for the types of the model.
UnknownTypeText(type) ==
  CASE type = "del_user" -> "Unknown command type: del_user"
    [] type = None -> "Unknown command type: None"
    [] OTHER -> "Unknown command type"

\* Mutant: the exception is not caught and leaves execute_command.
ExceptClauseMissing(d, msg, smcalls) == Step(d, "raised", NoResult, smcalls)

\* Lines 81-84: except Exception turns whatever the try body raised into an
\* error result (every exception of the model is an Exception).
ExceptClause(d, msg, smcalls) == Step(d, "report", Error(msg), smcalls)

\* Lines 37-67 and 72-84: dispatch, validation, and the first call.
ExecuteFirst(d, data, f) ==
  IF ~data.isMap THEN ExceptClause(d, AttributeErrorText, <<>>)
  ELSE IF data.type = "add_user" THEN
    IF ~data.paramsMap THEN ExceptClause(d, AttributeErrorText, <<>>)
    ELSE
      LET username == data.params.username
          password == data.params.password
          time_limit == data.params.time
      IN IF Truthy(username) /\ Truthy(password) /\ Truthy(time_limit)
           THEN IF f.ctor
                  THEN ExceptClause(d, "Missing required Mikrotik settings", <<>>)
                ELSE LET r == add_user(d, username, password, time_limit, f)
                         c == <<SmCall("add_user", username, password, time_limit,
                                       d, r, FALSE)>>
                     IN IF r.out.kind = "ok"
                          THEN Step(r.dev, "report", Success("User added successfully"), c)
                        ELSE ExceptClause(r.dev, r.out.msg, c)
         ELSE Step(d, "report", Error("Missing required parameters for add_user"), <<>>)
  ELSE IF data.type = "login_user" THEN
    IF ~data.paramsMap THEN ExceptClause(d, AttributeErrorText, <<>>)
    ELSE
      LET mac == data.params.mac
          ip == data.params.ip
      IN IF Truthy(mac) /\ Truthy(ip)
           THEN IF f.ctor
                  THEN ExceptClause(d, "Missing required Mikrotik settings", <<>>)
                ELSE LET r == login_user(d, mac, ip, f)
                         c == <<SmCall("login_user", mac, None, ip, d, r, r.rmok)>>
                     IN IF r.out.kind = "ok"
                          THEN Step(r.dev, "report", Success("User logged in successfully"), c)
                        ELSE IF r.out.kind = "ReAddUserError"
                          THEN Step(r.dev, "readd", NoResult, c)
                        ELSE ExceptClause(r.dev, r.out.msg, c)
         ELSE Step(d, "report", Error("Missing required parameters for login_user"), <<>>)
  ELSE Step(d, "report", Error(UnknownTypeText(data.type)), <<>>)

\* Mutant: the except ReAddUserError clause retries without re-adding.
ExecuteReAddSkipped(d, data, f) == Step(d, "relogin", NoResult, <<>>)

\* Line 70: the compensating add_user(username=mac, password=mac, time=time).
ExecuteReAdd(d, data, f) ==
  LET mac == data.params.mac
      time == data.params.time
      r == add_user(d, mac, mac, time, f)
      c == <<SmCall("add_user", mac, mac, time, d, r, FALSE)>>
  IN IF r.out.kind = "ok" THEN Step(r.dev, "relogin", NoResult, c)
     ELSE ExceptClause(r.dev, r.out.msg, c)

\* Mutant: a second ReAddUserError is retried again.
ExecuteReLoginAgain(d, data, f) ==
  LET mac == data.params.mac
      ip == data.params.ip
      r == login_user(d, mac, ip, f)
      c == <<SmCall("login_user", mac, None, ip, d, r, r.rmok)>>
  IN IF r.out.kind = "ok"
       THEN Step(r.dev, "report", Success("User logged in successfully"), c)
     ELSE IF r.out.kind = "ReAddUserError" THEN Step(r.dev, "relogin", NoResult, c)
     ELSE Step(r.dev, "report", Error(r.out.msg), c)

\* Line 71: the second login_user; whatever it raises reaches line 81.
ExecuteReLogin(d, data, f) ==
  LET mac == data.params.mac
      ip == data.params.ip
      r == login_user(d, mac, ip, f)
      c == <<SmCall("login_user", mac, None, ip, d, r, r.rmok)>>
  IN IF r.out.kind = "ok"
       THEN Step(r.dev, "report", Success("User logged in successfully"), c)
     ELSE ExceptClause(r.dev, r.out.msg, c)

\* ------------------------------------------------------------------------
\* State
\* ------------------------------------------------------------------------
VARIABLES
  dev,       \* the device: users, active, hosts, and the ids it hands out next
  cfg,       \* DJANGO_SERVER_URL, DJANGO_USERNAME and DJANGO_PASSWORD are all set
  pc,        \* where the polling thread is
  resp,      \* shape of the response to this cycle's fetch
  fetched,   \* the commands of this cycle's response, in the order received
  batch,     \* the sorted commands the for loop has not reached yet
  cur,       \* the command being processed
  result,    \* what execute_command returned for it
  smcalls,   \* the session-manager calls of the current execute_command
  log,       \* this cycle's executions and status reports, in order
  codec      \* a call of _parse_mikrotik_time on its own: argument and result

vars == <<dev, cfg, pc, resp, fetched, batch, cur, result, smcalls, log, codec>>

UidBase == Cardinality(Macs)
SidBase == Cardinality(Macs) * MaxInitSess

MacIndex(m) == IF m = "AA" THEN 1 ELSE 2

\* Accounts a name can have on the device at start (at most one).
Account(name, uptime, limit) ==
  [id |-> MacIndex(name), name |-> name, password |-> name,
   uptime |-> uptime, limit |-> limit]

InitAccountsOf(name) ==
  {<<>>, <<Account(name, "0s", "5m")>>, <<Account(name, "1m", "0s")>>}

\* Sessions a MAC can have on the device at start.
InitSessionsOf(mac) ==
  {[i \in 1 .. n |-> [id |-> (MacIndex(mac) - 1) * MaxInitSess + i, mac |-> mac,
                      address |-> "ip1"]] : n \in 0 .. MaxInitSess}

Host(mac, address, toaddr) == [mac |-> mac, address |-> address, toaddr |-> toaddr]

StdHosts == <<Host("AA", "ip1", None), Host("BB", "ip2", None)>>

InitHosts ==
  {<<Host("BB", "ip2", None)>>,
   <<Host("AA", "ip1", "ip9"), Host("BB", "ip2", None)>>,
   <<Host("AA", None, None), Host("BB", "ip2", None)>>}

Device(users, active, hosts) ==
  [users |-> users, active |-> active, hosts |-> hosts,
   nextUid |-> UidBase + 1, nextSid |-> SidBase + 1]

\* The devices the session-manager specification starts from: every
\* account and session table with the standard hosts, and every other host
\* table with one account and one session.
InitDevices ==
  {Device(ua, sa, StdHosts) : ua \in InitAccountsOf("AA"), sa \in InitSessionsOf("AA")}
  \cup {Device(<<Account("AA", "0s", "5m")>>,
                <<[id |-> 1, mac |-> "AA", address |-> "ip1"]>>, h) : h \in InitHosts}

\* The device the loop specification starts from.
LoopDevices ==
  {Device(<<Account("AA", "0s", "5m")>>,
          <<[id |-> 1, mac |-> "AA", address |-> "ip1"]>>,
          StdHosts)}

\* The ids the device may still hand out within the bounds of the model.
InBounds(d) == d.nextUid <= UidBase + MaxUid + 1 /\ d.nextSid <= SidBase + MaxSid + 1

\* No call of _parse_mikrotik_time on its own is under way.
NoParse == [pc |-> "idle", time_str |-> <<>>, total_seconds |-> 0]

Idle ==
  /\ resp = "none" /\ fetched = <<>> /\ batch = <<>> /\ cur = NoCommand
  /\ result = NoResult /\ smcalls = <<>> /\ log = <<>>
  /\ codec = NoParse

InitWith(devices) ==
  /\ dev \in devices
  /\ cfg \in BOOLEAN
  /\ pc = "start"
  /\ Idle

Init == InitWith(LoopDevices)

\* The devices the one-command specification starts from.
ExecDevices ==
  {Device(ua, sa, h) :
     ua \in {<<>>, <<Account("AA", "0s", "5m")>>},
     sa \in InitSessionsOf("AA"),
     h \in {<<Host("BB", "ip2", None)>>, StdHosts}}

InitExec == InitWith(ExecDevices)

\* The session manager on its own, before any call.
InitSM ==
  /\ dev \in InitDevices
  /\ cfg = TRUE
  /\ pc = "api"
  /\ Idle

\* ------------------------------------------------------------------------
\* The device on its own
\* ------------------------------------------------------------------------
NextUptime(t) ==
  CASE t = "0s" -> "1m" [] t = "1m" -> "5m" [] OTHER -> t

\* A logged-in user's account accrues uptime.  (The session manager's calls
\* are atomic here, so the device acts between them.)
DeviceAccrue ==
  /\ pc = "api"
  /\ \E i \in 1 .. Len(dev.users) :
       /\ NextUptime(dev.users[i].uptime) /= dev.users[i].uptime
       /\ dev' = [dev EXCEPT !.users[i].uptime = NextUptime(@)]
  /\ UNCHANGED <<cfg, codec, pc, resp, fetched, batch, cur, result, smcalls, log>>

\* ------------------------------------------------------------------------
\* The polling thread (poll_command)
\* ------------------------------------------------------------------------
\* Lines 104-107: without the server settings the thread returns at once.
Start ==
  /\ pc = "start"
  /\ pc' = IF cfg THEN "fetch" ELSE "exited"
  /\ UNCHANGED <<dev, cfg, codec, resp, fetched, batch, cur, result, smcalls, log>>

\* Shapes of a fetch: the request fails (network, HTTP status, invalid JSON);
\* the body is a list; the body is a mapping without 'commands'; a mapping
\* whose 'commands' is no list; a mapping whose 'commands' is a list.
RespShapes == {"error", "body_list", "no_key", "commands_not_list", "commands_list"}

\* Mutant: the isinstance(commands, list) check is missing.
ProcessedUnchecked(shape) == shape \in {"commands_list", "no_key", "commands_not_list"}

\* Lines 115-120: the commands are processed when response.json() is a
\* mapping (it has .get) whose 'commands' entry is a list, or is missing
\* (then the list is empty).
Processed(shape) == shape \in {"commands_list", "no_key"}

\* Mutant: the try of the loop body has no except clauses, so a failed
\* fetch ends the thread.
FetchUncaught(batches) ==
  /\ pc = "fetch"
  /\ \E shape \in RespShapes, items \in batches :
       /\ shape \in {"error", "no_key"} => items = <<>>
       /\ resp' = shape
       /\ fetched' = items
       /\ IF Processed(shape)
            THEN batch' = sorted(items) /\ pc' = "next"
          ELSE batch' = <<>> /\ pc' = IF shape = "commands_not_list" THEN "sleep" ELSE "exited"
  /\ UNCHANGED <<dev, cfg, codec, cur, result, smcalls, log>>

\* Lines 111-123 and 135-141.
Fetch(batches) ==
  /\ pc = "fetch"
  /\ \E shape \in RespShapes, items \in batches :
       /\ shape \in {"error", "no_key"} => items = <<>>
       /\ resp' = shape
       /\ fetched' = items
       /\ IF Processed(shape)
            THEN batch' = sorted(items) /\ pc' = "next"
          ELSE batch' = <<>> /\ pc' = "sleep"
  /\ UNCHANGED <<dev, cfg, codec, cur, result, smcalls, log>>

\* Line 124: the for loop takes the next command, or ends.
NextCommand ==
  /\ pc = "next"
  /\ IF batch = <<>>
       THEN pc' = "sleep" /\ UNCHANGED <<batch, cur>>
     ELSE pc' = "exec" /\ cur' = Head(batch) /\ batch' = Tail(batch)
  /\ result' = NoResult
  /\ smcalls' = <<>>
  /\ UNCHANGED <<dev, cfg, codec, resp, fetched, log>>

\* The polling thread moves on in execute_command as step says.
Take(step) ==
  /\ InBounds(step.dev)
  /\ dev' = step.dev
  /\ pc' = step.pc
  /\ result' = step.result
  /\ smcalls' = smcalls \o step.sm
  /\ log' = IF step.pc \notin {"readd", "relogin"}
              THEN Append(log, [ev |-> "exec", cmd |-> cur, status |-> step.result])
            ELSE log
  /\ UNCHANGED <<cfg, codec, resp, fetched, batch, cur>>

\* Line 131, up to the return or to the except ReAddUserError clause.
Execute(F) ==
  /\ pc = "exec"
  /\ \E f \in F : Take(ExecuteFirst(dev, cur.data, f))

ReAdd(F) ==
  /\ pc = "readd"
  /\ \E f \in F : Take(ExecuteReAdd(dev, cur.data, f))

ReLogin(F) ==
  /\ pc = "relogin"
  /\ \E f \in F : Take(ExecuteReLogin(dev, cur.data, f))

\* Mutant: only a success result is reported.
ReportStatusOnSuccess ==
  /\ pc = "report"
  /\ IF result.status = "success"
       THEN log' = Append(log, [ev |-> "report", cmd |-> cur, status |-> result])
     ELSE log' = log
  /\ pc' = "next"
  /\ UNCHANGED <<dev, cfg, codec, resp, fetched, batch, cur, result, smcalls>>

\* Line 134: report_status posts the result and swallows any failure.
ReportStatus ==
  /\ pc = "report"
  /\ \E delivered \in BOOLEAN :
       log' = Append(log, [ev |-> IF delivered THEN "report" ELSE "report_failed",
                           cmd |-> cur, status |-> result])
  /\ pc' = "next"
  /\ UNCHANGED <<dev, cfg, codec, resp, fetched, batch, cur, result, smcalls>>

\* Line 143: time.sleep(POLL_INTERVAL), then the next iteration.
Sleep ==
  /\ pc = "sleep"
  /\ pc' = "fetch"
  /\ resp' = "none" /\ fetched' = <<>> /\ batch' = <<>> /\ cur' = NoCommand
  /\ result' = NoResult /\ smcalls' = <<>> /\ log' = <<>>
  /\ UNCHANGED <<dev, cfg, codec>>

Batches == SeqsUpTo(Commands, MaxBatch)

\* The failure patterns of the loop specification: none, or the first
\* remove or login call raising with the uptime text.
LoopFailures ==
  {f \in Failures : f.rm = 0 /\ ~f.ctor /\ f.at \in {0, 3}
                     /\ (f.at = 3 => f.msg = "Your uptime limit reached")}

Next ==
  \/ Start
  \/ Fetch(Batches)
  \/ NextCommand
  \/ Execute(LoopFailures)
  \/ ReAdd(LoopFailures)
  \/ ReLogin(LoopFailures)
  \/ ReportStatus
  \/ Sleep

Spec == Init /\ [][Next]_vars

\* The polling thread keeps running: it is the only thread of the loop, each
\* of its steps is a call that returns, and time.sleep returns.
\* The batches of the liveness specification: a login_user command and a
\* command of unknown type, in any order.
LiveCommands ==
  {[hasId |-> TRUE, id |-> 1, data |-> LoginData("AA", "ip1", "5m")],
   [hasId |-> TRUE, id |-> 2, data |-> Data("del_user", NoParams)]}

NextLive ==
  \/ Start
  \/ Fetch(SeqsUpTo(LiveCommands, MaxBatch))
  \/ NextCommand
  \/ Execute(LoopFailures)
  \/ ReAdd(LoopFailures)
  \/ ReLogin(LoopFailures)
  \/ ReportStatus
  \/ Sleep

SpecLive == Init /\ [][NextLive]_vars /\ WF_vars(NextLive)

\* Lines 29-33 and 146-147: on SIGINT the handler calls sys.exit(0) in the
\* main thread; the polling thread is a daemon thread, so it ends with the
\* process wherever it is.
Signal ==
  /\ pc /= "terminated"
  /\ pc' = "terminated"
  /\ UNCHANGED <<dev, cfg, codec, resp, fetched, batch, cur, result, smcalls, log>>

\* The polling thread and a SIGINT that can arrive at any moment.
NextSignal ==
  \/ NextLive
  \/ Signal

SpecSignal == Init /\ [][NextSignal]_vars

\* The control server sends a command again: the batches hold the same
\* add_user or login_user command twice.
TwiceCommands ==
  [hasId : {TRUE}, id : {1},
   data : {AddData("AA", "AA", "5m"), LoginData("AA", "ip1", "5m"),
           LoginData("AA", "ip1", None)}]

TwiceBatches == {<<>>} \cup {<<c, c>> : c \in TwiceCommands}

\* The devices of this specification hold accounts and sessions of one MAC
\* only, so that the device's next ids can start right above them.
TwiceDevices ==
  {[Device(ua, sa, StdHosts) EXCEPT !.nextUid = 2, !.nextSid = MaxInitSess + 1] :
     ua \in InitAccountsOf("AA"), sa \in InitSessionsOf("AA")}

InitTwice == InitWith(TwiceDevices)

\* No failure, a failing remove call of the cleanup, the login call rejected
\* for the uptime limit, a failing login or add call.
TwiceFailures ==
  {f \in Failures : /\ ~f.ctor /\ f.rm \in {0, 3} /\ f.at \in {0, 3, 5}
                     /\ f.msg \in {"Your uptime limit reached", "timed out"}}

NextTwice ==
  \/ Start
  \/ Fetch(TwiceBatches)
  \/ NextCommand
  \/ Execute(TwiceFailures)
  \/ ReAdd(TwiceFailures)
  \/ ReLogin(TwiceFailures)
  \/ ReportStatus
  \/ Sleep

SpecTwice == InitTwice /\ [][NextTwice]_vars

\* The same thread against every device of the model, with the control
\* server handing out one command per cycle.
NextExec ==
  \/ Start
  \/ Fetch(SeqsUpTo(SingleCommands, 1))
  \/ NextCommand
  \/ Execute(Failures)
  \/ ReAdd(Failures)
  \/ ReLogin(Failures)
  \/ ReportStatus
  \/ Sleep

SpecExec == InitExec /\ [][NextExec]_vars

\* ------------------------------------------------------------------------
\* The session manager called directly (as test.py calls it)
\* ------------------------------------------------------------------------
\* The failure patterns of a direct call: at most one interaction raises.
OneFailure == {f \in Failures : ~f.ctor /\ (f.rm = 0 \/ f.at = 0)}

\* The device is left as r leaves it and the call is recorded.
Called(call, r) ==
  /\ InBounds(r.dev)
  /\ dev' = r.dev
  /\ smcalls' = <<call>>
  /\ pc' = "returned"
  /\ UNCHANGED <<cfg, codec, resp, fetched, batch, cur, result, log>>

\* The caller is done with what the call returned.
Return ==
  /\ pc = "returned"
  /\ pc' = "api"
  /\ smcalls' = <<>>
  /\ UNCHANGED <<dev, cfg, codec, resp, fetched, batch, cur, result, log>>

CallLoginUser ==
  /\ pc = "api"
  /\ \E mac \in Macs, ip \in Ips, f \in {g \in OneFailure : g.at <= 3} :
       LET r == login_user(dev, mac, ip, f)
       IN Called(SmCall("login_user", mac, None, ip, dev, r, r.rmok), r)

CallAddUser ==
  /\ pc = "api"
  /\ \E username \in Macs, time \in {"5m"}, f \in {g \in OneFailure : g.rm = 0 /\ g.msg = "timed out"} :
       LET r == add_user(dev, username, username, time, f)
       IN Called(SmCall("add_user", username, username, time, dev, r, FALSE), r)

CallUserExists ==
  /\ pc = "api"
  /\ \E username \in Macs, f \in {g \in OneFailure : g.rm = 0 /\ g.at <= 3 /\ g.msg = "timed out"} :
       LET r == user_exists(dev, username, f)
       IN Called(SmCall("user_exists", username, None, None, dev, r, r.ret), r)

\* The sets of listed sessions the device may drop before their removal,
\* when no other failure is at hand.
Gone(listed, f) ==
  IF f.rm = 0 THEN SUBSET {listed[i].id : i \in 1 .. Len(listed)} ELSE {{}}

CallRemoveActiveSessionByMac ==
  /\ pc = "api"
  /\ \E mac \in Macs, f \in {g \in OneFailure : g.at = 0} :
       \E gone \in Gone(SelectSeq(dev.active, LAMBDA s : Lower(s.mac) = Lower(mac)), f) :
         LET r == remove_active_session_by_mac_gone(dev, mac, f, gone)
         IN Called(SmCall("remove_active_session_by_mac", mac, None, None, dev, r, r.ret), r)

CallRemoveActiveSessionByIp ==
  /\ pc = "api"
  /\ \E ip \in Ips, f \in {g \in OneFailure : g.at = 0} :
       \E gone \in Gone(SelectSeq(dev.active, LAMBDA s : s.address = ip), f) :
         LET r == remove_active_session_by_ip(dev, ip, f, gone)
         IN Called(SmCall("remove_active_session_by_ip", ip, None, None, dev, r, r.ret), r)

NextSM ==
  \/ CallLoginUser
  \/ CallAddUser
  \/ CallUserExists
  \/ CallRemoveActiveSessionByMac
  \/ CallRemoveActiveSessionByIp
  \/ Return
  \/ DeviceAccrue

SpecSM == InitSM /\ [][NextSM]_vars

\* ------------------------------------------------------------------------
\* _parse_mikrotik_time called on its own
\* ------------------------------------------------------------------------
\* Characters the duration strings are made of: digits, the five units and a
\* character that is neither.
CodecChars == {"0", "1", "2", "3", "w", "d", "h", "m", "s", "x"}

\* The time_str arguments: every string over CodecChars up to MaxLen
\* characters, and the duration strings of the commands.
CodecInputs ==
  SeqsUpTo(CodecChars, MaxLen) \cup {Chars(time_str) : time_str \in TimeStrs}

InitCodec ==
  /\ dev \in LoopDevices /\ cfg = TRUE /\ pc = "api"
  /\ resp = "none" /\ fetched = <<>> /\ batch = <<>> /\ cur = NoCommand
  /\ result = NoResult /\ smcalls = <<>> /\ log = <<>>
  /\ codec \in [pc : {"call"}, time_str : CodecInputs, total_seconds : {0}]

\* self._parse_mikrotik_time(time_str) runs and returns.
ParseMikrotikTime ==
  /\ codec.pc = "call"
  /\ codec' = [codec EXCEPT !.pc = "returned",
                            !.total_seconds = ParseChars(codec.time_str)]
  /\ UNCHANGED <<dev, cfg, pc, resp, fetched, batch, cur, result, smcalls, log>>

NextCodec == ParseMikrotikTime

SpecCodec == InitCodec /\ [][NextCodec]_vars

\* ------------------------------------------------------------------------
\* Properties
\* ------------------------------------------------------------------------
Ops(calls) == [i \in 1 .. Len(calls) |-> calls[i].op]

CountOp(calls, op) == Len(SelectSeq(calls, LAMBDA c : c.op = op))

LastCall == smcalls[Len(smcalls)]

\* execute_command has returned for a login_user command whose first
\* login_user raised ReAddUserError and whose last call is a later login_user
\* that succeeded.
ReAddThenLoggedIn ==
  /\ pc = "report"
  /\ cur.data.type = "login_user"
  /\ Len(smcalls) >= 2
  /\ smcalls[1].op = "login_user" /\ smcalls[1].kind = "ReAddUserError"
  /\ LastCall.op = "login_user" /\ LastCall.kind = "ok"

\* C1: when the first login_user of a login_user command raises
\* ReAddUserError and the login made after re-adding succeeds, the calls of
\* execute_command are exactly login_user(mac, ip), add_user(mac, mac, time),
\* login_user(mac, ip), in this order, and it returns a success result.
C1_ReAddRetryOrder ==
  ReAddThenLoggedIn =>
    LET p == cur.data.params IN
    /\ Ops(smcalls) = <<"login_user", "add_user", "login_user">>
    /\ smcalls[1].name = p.mac /\ smcalls[1].arg = p.ip
    /\ smcalls[2].name = p.mac /\ smcalls[2].pw = p.mac /\ smcalls[2].arg = p.time
    /\ smcalls[2].kind = "ok"
    /\ smcalls[3].name = p.mac /\ smcalls[3].arg = p.ip
    /\ result.status = "success"

C1_Witness ==
  /\ ReAddThenLoggedIn
  /\ Len(smcalls) = 3
  /\ result.status = "success"
  /\ cur.data.params.time = "5m"

\* C2: one execute_command of a login_user command makes at most two
\* login_user calls and at most one add_user call, and when the compensating
\* add_user or the second login_user raises (a second ReAddUserError
\* included) it returns an error result.
C2_AtMostOneRetry ==
  cur.data.type = "login_user" =>
    /\ CountOp(smcalls, "login_user") <= 2
    /\ CountOp(smcalls, "add_user") <= 1
    /\ (Len(smcalls) >= 2 /\ LastCall.kind /= "ok") =>
          pc \notin {"exec", "readd", "relogin"} /\ result.status = "error"

C2_Witness ==
  /\ pc = "report"
  /\ cur.data.type = "login_user"
  /\ Len(smcalls) = 3
  /\ LastCall.op = "login_user" /\ LastCall.kind = "ReAddUserError"
  /\ result.status = "error"

\* C3: no exception leaves execute_command: the polling thread is never at a
\* point where execute_command has raised, and whenever execute_command has
\* returned its result is a success or an error result.
C3_AlwaysAResult ==
  /\ pc /= "raised"
  /\ pc = "report" => result.status \in {"success", "error"}
  /\ pc \in {"exec", "readd", "relogin"} => result = NoResult

C3_Witness ==
  /\ pc = "report"
  /\ Len(smcalls) = 3
  /\ LastCall.kind = "UnboundLocalError"
  /\ result.status = "error"

\* C5: the device's account table holds at most one account per username.
C5_OneAccountPerName ==
  \A name \in Macs : Len(UsersNamed(dev, name)) <= 1

\* An add_user replaced an existing account of the name.
C5_Witness ==
  /\ smcalls /= <<>>
  /\ LastCall.op = "add_user" /\ LastCall.kind = "ok"
  /\ \E u \in {LastCall.pre.users[i] : i \in 1 .. Len(LastCall.pre.users)} :
       u.name = LastCall.name
  /\ Len(UsersNamed(dev, LastCall.name)) = 1

\* Seconds of the durations an account of the model carries.
Secs(t) == CASE t = "0s" -> 0 [] t = "1m" -> 60 [] t = "5m" -> 300

Expired(a) == Secs(a.limit) /= 0 /\ Secs(a.uptime) >= Secs(a.limit)

\* The sessions of table t that belong to mac.
SessionsOf(t, mac) == SelectSeq(t.active, LAMBDA x : Lower(x.mac) = Lower(mac))

IdsOf(seq) == {seq[i].id : i \in 1 .. Len(seq)}

LastIs(op) == smcalls /= <<>> /\ LastCall.op = op

\* C4 as claimed: add_user on a username that has an unexpired account
\* issues no device call and leaves the account table as it was.
C4_NoOpOnExisting ==
  (/\ LastIs("add_user")
   /\ UsersNamed(LastCall.pre, LastCall.name) /= <<>>
   /\ ~Expired(UsersNamed(LastCall.pre, LastCall.name)[1]))
  => LastCall.calls = <<>> /\ LastCall.post.users = LastCall.pre.users

\* C4 as amended: add_user that returns, on a username that has an account,
\* has issued one remove call for that account and then one add call; the
\* username is left with exactly one account, a new one with no uptime and
\* the given password and limit; the other accounts are as they were.
C4_ReplacesExisting ==
  (/\ LastIs("add_user") /\ LastCall.kind = "ok"
   /\ UsersNamed(LastCall.pre, LastCall.name) /= <<>>)
  => LET c == LastCall
         old == UsersNamed(c.pre, c.name)[1]
         now == UsersNamed(c.post, c.name)
     IN /\ c.calls = <<DevCall("user", "remove", old.id, "", ""),
                       DevCall("user", "add", 0, c.name, c.arg)>>
        /\ Len(now) = 1
        /\ now[1].id \notin IdsOf(c.pre.users)
        /\ now[1].uptime = "0s" /\ now[1].limit = c.arg /\ now[1].password = c.pw
        /\ \A other \in Macs \ {c.name} :
             UsersNamed(c.post, other) = UsersNamed(c.pre, other)

C4_Witness ==
  /\ LastIs("add_user") /\ LastCall.kind = "ok"
  /\ UsersNamed(LastCall.pre, LastCall.name) /= <<>>
  /\ UsersNamed(LastCall.pre, LastCall.name)[1].uptime = "1m"
  /\ ~Expired(UsersNamed(LastCall.pre, LastCall.name)[1])
  /\ Len(UsersNamed(dev, LastCall.name)) = 1

RemoveCalls(calls) == SelectSeq(calls, LAMBDA c : c.op = "remove")

\* C7: user_exists issues at most one remove call; when it returns, then for
\* an account whose limit is not 0 and whose uptime has reached it, it has
\* issued one remove call for that account and returns False; for any other
\* account it returns True and has issued no call; for no account it returns
\* False and has issued no call.
C7_UserExists ==
  LastIs("user_exists") =>
    LET c == LastCall
        found == UsersNamed(c.pre, c.name)
    IN /\ Len(RemoveCalls(c.calls)) <= 1
       /\ c.kind = "ok" =>
            IF found = <<>> THEN ~c.ret /\ c.calls = <<>>
            ELSE IF Expired(found[1])
              THEN /\ ~c.ret
                   /\ c.calls = <<DevCall("user", "remove", found[1].id, "", "")>>
                   /\ UsersNamed(c.post, c.name) = <<>>
            ELSE c.ret /\ c.calls = <<>> /\ c.post = c.pre

C7_Witness ==
  /\ LastIs("user_exists") /\ LastCall.kind = "ok" /\ ~LastCall.ret
  /\ Len(LastCall.calls) = 1
  /\ UsersNamed(LastCall.pre, LastCall.name)[1].uptime = "5m"
  /\ UsersNamed(LastCall.pre, LastCall.name)[1].limit = "5m"

\* The executions and the status reports of this cycle's log.
Execs == SelectSeq(log, LAMBDA e : e.ev = "exec")
Reports == SelectSeq(log, LAMBDA e : e.ev \in {"report", "report_failed"})

\* execute_command is running for cur.
Executing == pc \in {"exec", "readd", "relogin"}

\* C8: within a cycle the commands are executed in ascending order of id.
C8_AscendingIds ==
  \A i, j \in 1 .. Len(Execs) :
    (i < j /\ Execs[i].cmd.hasId /\ Execs[j].cmd.hasId)
      => Execs[i].cmd.id <= Execs[j].cmd.id

\* A batch received in descending order has been executed in ascending order.
C8_Witness ==
  /\ pc = "sleep"
  /\ Len(fetched) = 2 /\ fetched[1].hasId /\ fetched[2].hasId
  /\ fetched[1].id > fetched[2].id
  /\ Len(Execs) = 2
  /\ Execs[1].cmd = fetched[2] /\ Execs[2].cmd = fetched[1]

Count(seq, x) == Len(SelectSeq(seq, LAMBDA y : y = x))

\* C9: the cycle's log is execution, report, execution, report, ...: each
\* report (delivered or not) follows the execution of the same command with
\* the same result, an execution without its report is the one being
\* reported now, and every command of the batch is executed once: each has
\* been executed, is being executed, or is still to come, as often as it was
\* fetched; at the end of the cycle all have been executed and reported.
C9_ExecuteThenReport ==
  /\ \A i \in 1 .. Len(log) :
       IF i % 2 = 1 THEN log[i].ev = "exec"
       ELSE /\ log[i].ev \in {"report", "report_failed"}
            /\ log[i].cmd = log[i - 1].cmd
            /\ log[i].status = log[i - 1].status
  /\ Len(log) % 2 = 1 <=> pc = "report"
  /\ pc = "report" => log[Len(log)].cmd = cur /\ log[Len(log)].status = result
  /\ \A e \in {log[i] : i \in 1 .. Len(log)} : e.status.status \in {"success", "error"}
  /\ resp = "commands_list" =>
       \A c \in {fetched[i] : i \in 1 .. Len(fetched)} :
         Count(fetched, c) =
           Count([i \in 1 .. Len(Execs) |-> Execs[i].cmd], c) + Count(batch, c)
             + (IF Executing /\ cur = c THEN 1 ELSE 0)
  /\ resp /= "commands_list" => log = <<>>
  /\ pc = "sleep" => Len(Execs) = Len(fetched) * (IF resp = "commands_list" THEN 1 ELSE 0)
                     /\ Len(Reports) = Len(Execs)

\* Two commands executed and reported, the first with an error result.
C9_Witness ==
  /\ pc = "sleep"
  /\ Len(log) = 4
  /\ log[1].status.status = "error" /\ log[2].ev = "report"
  /\ log[3].status.status = "success" /\ log[4].ev = "report_failed"

LoopPcs == {"fetch", "next", "exec", "readd", "relogin", "report", "sleep"}

\* C11: once in the loop the polling thread never leaves it; every cycle it
\* starts reaches its sleep, whatever the fetch, the executions and the
\* reports came to, and after every sleep another cycle starts.
C11_LoopForever ==
  /\ [][(pc \in LoopPcs) => (pc' \in LoopPcs)]_vars
  /\ (pc = "fetch") ~> (pc = "sleep")
  /\ (pc = "sleep") ~> (pc = "fetch")

\* A cycle in which an execution ended in an error result and its report
\* failed has reached its sleep.
C11_Witness ==
  /\ pc = "sleep"
  /\ \E i \in 1 .. Len(log) :
       log[i].ev = "report_failed" /\ log[i].status.status = "error"

\* execute_command has started for cur (it has made a session-manager call
\* or has returned) and report_status has not been called for it yet.
Unreported == pc \in {"readd", "relogin", "report"}

\* C12: the process terminates on a signal only between cycles: never at a
\* point where a command's execution has started and its status report has
\* not been attempted.
C12_SignalBetweenCycles ==
  [][(pc' = "terminated") => ~Unreported]_vars

\* A parameter the command does not carry.
Missing(v) == v = None

\* The invalid commands: add_user without username, password or time,
\* login_user without mac or ip, and any other type.
Invalid(data) ==
  /\ data.isMap
  /\ \/ /\ data.type = "add_user" /\ data.paramsMap
        /\ \E v \in {data.params.username, data.params.password, data.params.time} :
             Missing(v)
     \/ /\ data.type = "login_user" /\ data.paramsMap
        /\ Missing(data.params.mac) \/ Missing(data.params.ip)
     \/ data.type \notin {"add_user", "login_user"}

\* C13: execute_command on an invalid command returns an error result in
\* one step, without any session-manager call and with the device as it
\* was; for an unknown type the message names the type.
C13_InvalidRejected ==
  [][(pc = "exec" /\ Invalid(cur.data)) =>
       /\ pc' = "report"
       /\ result'.status = "error"
       /\ smcalls' = <<>>
       /\ dev' = dev
       /\ cur.data.type = "del_user" => result'.message = "Unknown command type: del_user"
       /\ cur.data.type = None => result'.message = "Unknown command type: None"
       /\ cur.data.type = "add_user" =>
            result'.message = "Missing required parameters for add_user"
       /\ cur.data.type = "login_user" =>
            result'.message = "Missing required parameters for login_user"]_vars

\* A login_user command without ip has been rejected.
C13_Witness ==
  /\ pc = "report"
  /\ cur.data.type = "login_user" /\ Invalid(cur.data)
  /\ Missing(cur.data.params.ip) /\ ~Missing(cur.data.params.mac)
  /\ result = Error("Missing required parameters for login_user")
  /\ smcalls = <<>>

\* The records of a table without their device-assigned ids.
AccountsNoId(users) ==
  [i \in 1 .. Len(users) |->
     [name |-> users[i].name, password |-> users[i].password,
      uptime |-> users[i].uptime, limit |-> users[i].limit]]

SessionsNoId(active) ==
  [i \in 1 .. Len(active) |-> [mac |-> active[i].mac, address |-> active[i].address]]

\* execute_command has returned for the second of two executions of the
\* same add_user or login_user command, and both returned a success result;
\* smcalls[1].pre holds the tables as the first execution left them.
ExecutedTwice ==
  /\ pc = "report"
  /\ Len(log) = 3
  /\ log[1].cmd = cur /\ log[3].cmd = cur
  /\ cur.data.type \in {"add_user", "login_user"}
  /\ log[1].status.status = "success" /\ result.status = "success"

LimitOf(params) == IF ~Missing(params.time) THEN params.time ELSE params.time_limit

\* C15: for an add_user command with username, password and the limit under
\* 'time' or under 'time_limit', execute_command does not return the
\* missing-parameters error, and unless Mikrotik() cannot be constructed it
\* calls add_user with that limit.
C15_EitherKey ==
  (/\ pc = "report"
   /\ cur.data.type = "add_user" /\ cur.data.isMap /\ cur.data.paramsMap
   /\ ~Missing(cur.data.params.username) /\ ~Missing(cur.data.params.password)
   /\ ~Missing(LimitOf(cur.data.params)))
  => /\ result /= Error("Missing required parameters for add_user")
     /\ result /= Error("Missing required Mikrotik settings") =>
          /\ smcalls /= <<>>
          /\ smcalls[1].op = "add_user"
          /\ smcalls[1].arg = LimitOf(cur.data.params)

\* The host entries of the device for mac.
HostsOf(mac) == SelectSeq(dev.hosts, LAMBDA h : Lower(h.mac) = Lower(mac))

LoginCalls(calls) == SelectSeq(calls, LAMBDA c : c.op = "login")

\* login_user got the host listing and it holds no entry for the MAC.
NoHostEntry ==
  /\ LastIs("login_user")
  /\ \E i \in 1 .. Len(LastCall.calls) : LastCall.calls[i] = HostsListed
  /\ HostsOf(LastCall.name) = <<>>

\* C16: when login_user has listed the hosts and none matches the MAC, it
\* raises the error that names the missing host entry, and it has not
\* attempted the login call.
C16_HostNotFound ==
  NoHostEntry =>
    /\ LastCall.kind /= "ok"
    /\ LastCall.msg = "Host entry not found for MAC"
    /\ LoginCalls(LastCall.calls) = <<>>

LoginErrorKinds == {"ReAddUserError", "Exception", "reraised"}

\* C18: a failing login_user raises one of the kinds of the classification,
\* and an exception it re-raises with the device's message is one the
\* classification did not catch earlier: its message, lowercased, contains
\* none of "uptime limit", "no such user" and "unknown host".
C18_Classified ==
  (LastIs("login_user") /\ LastCall.kind /= "ok") =>
    /\ LastCall.kind \in LoginErrorKinds
    /\ LastCall.kind = "reraised" =>
         LET error_message == MsgLower(LastCall.msg) IN
         /\ ~Contains(error_message, "uptime limit")
         /\ ~Contains(error_message, "no such user")
         /\ ~Contains(error_message, "unknown host")

RemoveOps == {"remove_active_session_by_mac", "remove_active_session_by_ip"}

LastIsRemoval == smcalls /= <<>> /\ LastCall.op \in RemoveOps

\* The sessions that matched when call c listed them.
Listed(c) ==
  IF c.op = "remove_active_session_by_mac" THEN SessionsOf(c.pre, c.name)
  ELSE SelectSeq(c.pre.active, LAMBDA x : x.address = c.name)

\* C19 as claimed: the two methods never raise, and when they return False
\* it is for a communication failure, not for a listed session that the
\* device no longer had when its removal was attempted.
C19_FalseOnlyOnCommunicationFailure ==
  LastIsRemoval =>
    /\ LastCall.kind = "ok"
    /\ ~LastCall.ret => LastCall.msg = "timed out"

\* C19 as amended: the two methods never raise; they return True exactly
\* when no error was met, and then a remove call was issued for every listed
\* session, in order, and none of them is left; they return False when the
\* connection, the listing or a remove call failed, a remove call rejected
\* because the device no longer had the session included.
C19_NeverRaises ==
  LastIsRemoval =>
    LET c == LastCall
        listed == Listed(c)
    IN /\ c.kind = "ok"
       /\ c.ret <=> c.msg = ""
       /\ c.ret =>
            /\ c.calls = [i \in 1 .. Len(listed) |->
                            DevCall("active", "remove", listed[i].id, "", "")]
            /\ c.post.active = WithoutIds(c.pre.active, IdsOf(listed))
            /\ c.post.users = c.pre.users
       /\ ~c.ret =>
            /\ c.msg \in {"timed out", NoSuchItem}
            /\ c.msg = NoSuchItem =>
                 /\ c.calls /= <<>>
                 /\ c.calls[Len(c.calls)].id \in IdsOf(listed) \ IdsOf(c.post.active)

\* remove_active_session_by_ip returned False because the device no longer
\* had a session it had listed.
C19_Witness ==
  /\ LastIsRemoval
  /\ LastCall.op = "remove_active_session_by_ip"
  /\ ~LastCall.ret /\ LastCall.msg = NoSuchItem
  /\ Len(Listed(LastCall)) = 2

\* C20: once the two methods have started removing, they attempt a remove
\* call for every session they listed, whether or not one of the calls
\* failed.
C20_BatchNotAborted ==
  (LastIsRemoval /\ LastCall.calls /= <<>>) =>
    {LastCall.calls[i].id : i \in 1 .. Len(LastCall.calls)} = IdsOf(Listed(LastCall))

AddCalls(calls) == SelectSeq(calls, LAMBDA c : c.op = "add")

\* C21: add_user replaces without rollback.  When the remove call for the
\* existing account was attempted and the account is still there (the
\* removal failed), add_user has raised, has made no add call and the account
\* table is as it was.  When the add call was attempted and add_user has
\* raised (the add failed), the calls are the remove call for the existing
\* account, if there was one, and the add call; the username has no account
\* and the other accounts are as they were.  The sessions are untouched.
C21_NoRollback ==
  LastIs("add_user") =>
    LET c == LastCall
        old == UsersNamed(c.pre, c.name)
        removes == RemoveCalls(c.calls)
    IN /\ c.post.active = c.pre.active
       /\ (removes /= <<>> /\ removes[1].id \in IdsOf(c.post.users)) =>
            /\ c.kind /= "ok"
            /\ AddCalls(c.calls) = <<>>
            /\ c.post.users = c.pre.users
       /\ (AddCalls(c.calls) /= <<>> /\ c.kind /= "ok") =>
            /\ c.calls = (IF old = <<>> THEN <<>>
                          ELSE <<DevCall("user", "remove", old[1].id, "", "")>>)
                         \o <<DevCall("user", "add", 0, c.name, c.arg)>>
            /\ UsersNamed(c.post, c.name) = <<>>
            /\ c.post.users = WithoutIds(c.pre.users, IdsOf(old))

\* The add call failed after the account of the username had been removed.
C21_Witness ==
  /\ LastIs("add_user") /\ LastCall.kind /= "ok"
  /\ Len(LastCall.calls) = 2 /\ LastCall.calls[2].op = "add"
  /\ UsersNamed(LastCall.pre, LastCall.name) /= <<>>
  /\ UsersNamed(dev, LastCall.name) = <<>>

\* The remove call failed: the account is kept and no add call was made.
C21_WitnessRemoveFailed ==
  /\ LastIs("add_user") /\ LastCall.kind /= "ok"
  /\ Len(LastCall.calls) = 1 /\ LastCall.calls[1].op = "remove"
  /\ UsersNamed(dev, LastCall.name) /= <<>>

\* C22: for any input string the duration codec returns the sum, over the
\* well-formed <integer><unit> tokens of the string (a maximal run of decimal
\* digits immediately followed by one of w, d, h, m, s), of the integer times
\* the unit's multiplier (w=604800, d=86400, h=3600, m=60, s=1); every other
\* substring contributes nothing. In particular "0s" gives 0, "2h30m" gives
\* 9000, "1w" gives 604800 and the empty string gives 0.
Multiplier(u) ==
  CASE u = "w" -> 7 * 24 * 60 * 60
    [] u = "d" -> 24 * 60 * 60
    [] u = "h" -> 60 * 60
    [] u = "m" -> 60
    [] u = "s" -> 1

\* <<i, j>>: cs[i..j-1] is a maximal-to-the-left run of digits and cs[j] a unit.
Tokens(cs) ==
  {t \in (1..Len(cs)) \X (1..Len(cs)) :
     /\ t[1] < t[2]
     /\ cs[t[2]] \in {"w", "d", "h", "m", "s"}
     /\ \A k \in t[1]..(t[2] - 1) : cs[k] \in Digits
     /\ (t[1] = 1 \/ cs[t[1] - 1] \notin Digits)}

RECURSIVE Decimal(_, _, _)
Decimal(cs, i, j) ==
  IF i > j THEN 0 ELSE 10 * Decimal(cs, i, j - 1) + DigitVal(cs[j])

RECURSIVE TokenSum(_, _)
TokenSum(cs, ts) ==
  IF ts = {} THEN 0
  ELSE LET t == CHOOSE x \in ts : TRUE
       IN Decimal(cs, t[1], t[2] - 1) * Multiplier(cs[t[2]]) + TokenSum(cs, ts \ {t})

C22_TokenSum ==
  codec.pc = "returned" =>
    /\ codec.total_seconds = TokenSum(codec.time_str, Tokens(codec.time_str))
    /\ codec.time_str = <<"0", "s">> => codec.total_seconds = 0
    /\ codec.time_str = <<"2", "h", "3", "0", "m">> => codec.total_seconds = 9000
    /\ codec.time_str = <<"1", "w">> => codec.total_seconds = 604800
    /\ codec.time_str = <<>> => codec.total_seconds = 0

C22_Witness ==
  /\ codec.pc = "returned"
  /\ codec.time_str = <<"2", "h", "3", "0", "m">>
  /\ codec.total_seconds = 9000

\* A string with a malformed part next to a token has returned the token alone.
C22_WitnessMalformed ==
  /\ codec.pc = "returned"
  /\ codec.time_str = <<"x", "2", "m">>
  /\ codec.total_seconds = 120

====
